---- MODULE Spec2Model ----
(***************************************************************************)
(* A model of the zerg HTTP load generator: the Driver (Swarm::zerg), its  *)
(* execution contexts (one thread with a current-thread runtime each), the *)
(* worker loops they poll, and the BenchmarkResult merge algebra.          *)
(*                                                                         *)
(* Time is a global monotonic clock counted in ticks; TicksPerMilli ticks  *)
(* make one millisecond, so Duration::as_millis truncates.                 *)
(***************************************************************************)
EXTENDS Integers, Sequences, FiniteSets, Bags, TLC

\* ---------------------------------------------------------------- bounds
MaxThreads == 2
MaxConcurrency == 2
MaxReq == 2
MaxTime == 1
MaxTimings == 3

\* ticks per millisecond (resolution of the model clock)
TicksPerMilli == 2
\* Duration::MAX, larger than any duration the clock can measure
DurationMax == 1000000

Ctx == 1..MaxThreads
Idx == 1..MaxConcurrency
Outcomes == {"success", "http_error", "tcp_error"}
Latencies == {1, 2}
\* the configured durations, in ticks
Durations == 1..MaxTime

VARIABLES
  cfg,        \* the Swarm configuration: uri, duration, threads, concurrency
  now,        \* the monotonic clock (Instant::now())
  running,    \* the shared AtomicBool
  drvpc,      \* the Driver's position in SwarmBuilder::zerg / Swarm::zerg
  spawned,    \* number of threads spawned so far
  drvStart,   \* the Driver's `start` Instant
  drvElapsed, \* the Driver's `elapsed`
  joinIdx,    \* number of join handles consumed so far
  results,    \* the Driver's fold accumulator / returned BenchmarkResult
  ctxpc,      \* per context: "none", "running", "finished", "crashed"
  cur,        \* per context: the loop the thread is executing (0: none)
  doneOrder,  \* per context: the loops in the order FuturesUnordered yielded them
  ctxResult,  \* per context: the thread's return value
  pc,         \* per loop: position in the async block
  result,     \* per loop: its BenchmarkResult
  start,      \* per loop: `start` Instant of the iteration
  issued,     \* history: requests handed to http.request per loop
  afterStop,  \* history: timings recorded per loop after the Driver stored false
  anyOk,      \* history: some http.request returned Ok
  allRejected, \* history: every http.request so far returned Ok and was classified false
  lost,       \* history: per context, timings recorded by loops a panic dropped
  ops         \* the three operands of the merge algebra

runVars == <<cfg, now, running, drvpc, spawned, drvStart, drvElapsed, joinIdx,
             results, ctxpc, cur, doneOrder, ctxResult, pc, result, start,
             issued, afterStop, anyOk, allRejected, lost>>
vars == <<cfg, now, running, drvpc, spawned, drvStart, drvElapsed, joinIdx,
          results, ctxpc, cur, doneOrder, ctxResult, pc, result, start,
          issued, afterStop, anyOk, allRejected, lost, ops>>

\* ------------------------------------------------------- BenchmarkResult
Min(a, b) == IF a <= b THEN a ELSE b
Max(a, b) == IF a >= b THEN a ELSE b

Default ==
  [success |-> 0, http_error |-> 0, tcp_error |-> 0, elapsed |-> 0,
   min_time |-> DurationMax, max_time |-> 0, timings |-> << >>]

\* mutant: transport failures are counted as requests too
total_request_countWithTcp(r) == r.success + r.http_error + r.tcp_error

total_request_count(r) == r.success + r.http_error

as_millis(d) == d \div TicksPerMilli

\* an f64: 0.0/0.0 is NaN, x/0.0 is +inf
requests_per_second(r) ==
  LET n == total_request_count(r)
      ms == as_millis(r.elapsed)
  IN  IF ms = 0
      THEN [kind |-> IF n = 0 THEN "nan" ELSE "inf", num |-> 0, den |-> 1]
      ELSE [kind |-> "finite", num |-> n * 1000, den |-> ms]

IsZero(f) == f.kind = "finite" /\ f.num = 0

\* mutant: the fold keeps the last operand's max_time
SumStepLastMax(total, r) ==
  [success |-> total.success + r.success,
   http_error |-> total.http_error + r.http_error,
   tcp_error |-> total.tcp_error + r.tcp_error,
   elapsed |-> total.elapsed + r.elapsed,
   min_time |-> Min(total.min_time, r.min_time),
   max_time |-> r.max_time,
   timings |-> total.timings \o r.timings]

\* mutant: the fold keeps only the last operand's timings
SumStepDropTimings(total, r) ==
  [success |-> total.success + r.success,
   http_error |-> total.http_error + r.http_error,
   tcp_error |-> total.tcp_error + r.tcp_error,
   elapsed |-> total.elapsed + r.elapsed,
   min_time |-> Min(total.min_time, r.min_time),
   max_time |-> Max(total.max_time, r.max_time),
   timings |-> r.timings]

\* the closure of Sum::sum's fold
SumStep(total, r) ==
  [success |-> total.success + r.success,
   http_error |-> total.http_error + r.http_error,
   tcp_error |-> total.tcp_error + r.tcp_error,
   elapsed |-> total.elapsed + r.elapsed,
   min_time |-> Min(total.min_time, r.min_time),
   max_time |-> Max(total.max_time, r.max_time),
   timings |-> total.timings \o r.timings]

RECURSIVE Fold(_, _)
Fold(total, rs) ==
  IF rs = << >> THEN total ELSE Fold(SumStep(total, Head(rs)), Tail(rs))

Sum(rs) == Fold(Default, rs)

\* mutant: min_time is overwritten without the comparison
AddAssignMinOverwrite(self, rhs) ==
  [success |-> self.success + rhs.success,
   http_error |-> self.http_error + rhs.http_error,
   tcp_error |-> self.tcp_error + rhs.tcp_error,
   elapsed |-> self.elapsed + rhs.elapsed,
   min_time |-> rhs.min_time,
   max_time |-> IF self.max_time < rhs.max_time THEN rhs.max_time ELSE self.max_time,
   timings |-> self.timings \o rhs.timings]

\* mutant: the max_time comparison is reversed
AddAssignMaxReversed(self, rhs) ==
  [success |-> self.success + rhs.success,
   http_error |-> self.http_error + rhs.http_error,
   tcp_error |-> self.tcp_error + rhs.tcp_error,
   elapsed |-> self.elapsed + rhs.elapsed,
   min_time |-> IF self.min_time > rhs.min_time THEN rhs.min_time ELSE self.min_time,
   max_time |-> IF self.max_time > rhs.max_time THEN rhs.max_time ELSE self.max_time,
   timings |-> self.timings \o rhs.timings]

AddAssign(self, rhs) ==
  [success |-> self.success + rhs.success,
   http_error |-> self.http_error + rhs.http_error,
   tcp_error |-> self.tcp_error + rhs.tcp_error,
   elapsed |-> self.elapsed + rhs.elapsed,
   min_time |-> IF self.min_time > rhs.min_time THEN rhs.min_time ELSE self.min_time,
   max_time |-> IF self.max_time < rhs.max_time THEN rhs.max_time ELSE self.max_time,
   timings |-> self.timings \o rhs.timings]

Add(self, rhs) == AddAssign(self, rhs)

\* mutant: the classifier's verdict is ignored, every response is a success
CountVerdictIgnored(r, outcome) ==
  CASE outcome = "success" -> [r EXCEPT !.success = @ + 1]
    [] outcome = "http_error" -> [r EXCEPT !.success = @ + 1]
    [] outcome = "tcp_error" -> [r EXCEPT !.tcp_error = @ + 1]

\* the match arms of the worker loop: exactly one counter is incremented
Count(r, outcome) ==
  CASE outcome = "success" -> [r EXCEPT !.success = @ + 1]
    [] outcome = "http_error" -> [r EXCEPT !.http_error = @ + 1]
    [] outcome = "tcp_error" -> [r EXCEPT !.tcp_error = @ + 1]

\* mutant: max_time is overwritten with the latest latency
RecordTimingLastMax(r, elapsed) ==
  [r EXCEPT !.elapsed = elapsed,
            !.timings = Append(@, elapsed),
            !.min_time = Min(@, elapsed),
            !.max_time = elapsed]

\* the tail of the worker loop body
RecordTiming(r, elapsed) ==
  [r EXCEPT !.elapsed = elapsed,
            !.timings = Append(@, elapsed),
            !.min_time = Min(@, elapsed),
            !.max_time = Max(@, elapsed)]

\* ------------------------------------------------------------------ Init
Uris == {"ok", "invalid", "unresolvable"}

RunInit(u, d, t, c) ==
  /\ cfg = [uri |-> u, duration |-> d, threads |-> t, concurrency |-> c]
  /\ now = 0
  /\ running = FALSE
  /\ drvpc = "build"
  /\ spawned = 0
  /\ drvStart = 0
  /\ drvElapsed = 0
  /\ joinIdx = 0
  /\ results = Default
  /\ ctxpc = [c1 \in Ctx |-> "none"]
  /\ cur = [c1 \in Ctx |-> 0]
  /\ doneOrder = [c1 \in Ctx |-> << >>]
  /\ ctxResult = [c1 \in Ctx |-> Default]
  /\ pc = [c1 \in Ctx |-> [i \in Idx |-> "none"]]
  /\ result = [c1 \in Ctx |-> [i \in Idx |-> Default]]
  /\ start = [c1 \in Ctx |-> [i \in Idx |-> 0]]
  /\ issued = [c1 \in Ctx |-> [i \in Idx |-> 0]]
  /\ afterStop = [c1 \in Ctx |-> [i \in Idx |-> 0]]
  /\ anyOk = FALSE
  /\ allRejected = TRUE
  /\ lost = [c1 \in Ctx |-> 0]

OpInit == ops = [k \in 1..3 |-> Default]

Init ==
  /\ \E u \in Uris, d \in Durations, t \in 0..MaxThreads, c \in 0..MaxConcurrency :
       RunInit(u, d, t, c)
  /\ OpInit

\* ---------------------------------------------------------------- Driver
\* SwarmBuilder::build: `self.uri?`
Build ==
  /\ drvpc = "build"
  /\ drvpc' = IF cfg.uri = "invalid" THEN "build_err" ELSE "resolve"
  /\ UNCHANGED <<cfg, now, running, spawned, drvStart, drvElapsed, joinIdx,
                 results, ctxpc, cur, doneOrder, ctxResult, pc, result, start,
                 issued, afterStop, anyOk, allRejected, lost, ops>>

\* mutant: a resolution failure is ignored and the run goes on
ResolveUnchecked ==
  /\ drvpc = "resolve"
  /\ drvpc' = "spawn"
  /\ UNCHANGED <<cfg, now, running, spawned, drvStart, drvElapsed, joinIdx,
                 results, ctxpc, cur, doneOrder, ctxResult, pc, result, start,
                 issued, afterStop, anyOk, allRejected, lost, ops>>

\* authority().unwrap(), to_socket_addrs().unwrap().next().unwrap()
Resolve ==
  /\ drvpc = "resolve"
  /\ drvpc' = IF cfg.uri = "ok" THEN "spawn" ELSE "panicked"
  /\ UNCHANGED <<cfg, now, running, spawned, drvStart, drvElapsed, joinIdx,
                 results, ctxpc, cur, doneOrder, ctxResult, pc, result, start,
                 issued, afterStop, anyOk, allRejected, lost, ops>>

\* mutant: every context runs the whole configured concurrency
LoopsPerContextUndivided == cfg.concurrency

\* (0..self.concurrency / self.threads)
LoopsPerContext == cfg.concurrency \div cfg.threads

\* one step of (0..self.threads).map(|_| thread::spawn(..)).collect(): the
\* new thread builds its runtime and the futures of its loops, none polled yet
Spawn ==
  /\ drvpc = "spawn"
  /\ spawned < cfg.threads
  /\ spawned' = spawned + 1
  /\ ctxpc' = [ctxpc EXCEPT ![spawned + 1] = "running"]
  /\ pc' = [pc EXCEPT ![spawned + 1] =
              [i \in Idx |-> IF i <= LoopsPerContext THEN "new" ELSE "none"]]
  /\ UNCHANGED <<cfg, now, running, drvpc, drvStart, drvElapsed, joinIdx,
                 results, cur, doneOrder, ctxResult, result, start,
                 issued, afterStop, anyOk, allRejected, lost, ops>>

\* running.store(true, Relaxed)
StoreRun ==
  /\ drvpc = "spawn"
  /\ spawned = cfg.threads
  /\ running' = TRUE
  /\ drvpc' = "stamp"
  /\ UNCHANGED <<cfg, now, spawned, drvStart, drvElapsed, joinIdx,
                 results, ctxpc, cur, doneOrder, ctxResult, pc, result, start,
                 issued, afterStop, anyOk, allRejected, lost, ops>>

\* let start = Instant::now()
Stamp ==
  /\ drvpc = "stamp"
  /\ drvStart' = now
  /\ drvpc' = "sleep"
  /\ UNCHANGED <<cfg, now, running, spawned, drvElapsed, joinIdx,
                 results, ctxpc, cur, doneOrder, ctxResult, pc, result, start,
                 issued, afterStop, anyOk, allRejected, lost, ops>>

\* mutant: the sleep returns at once
SleepOverEarly == TRUE

\* thread::sleep never returns before the duration has passed
SleepOver == now >= drvStart + cfg.duration

\* mutant: the sleep returns and the Driver goes on without storing false
StoreStopMissing ==
  /\ drvpc = "sleep"
  /\ SleepOver
  /\ drvpc' = "elapsed"
  /\ UNCHANGED <<cfg, now, running, spawned, drvStart, drvElapsed, joinIdx,
                 results, ctxpc, cur, doneOrder, ctxResult, pc, result, start,
                 issued, afterStop, anyOk, allRejected, lost, ops>>

\* thread::sleep returns; running.store(false, Relaxed)
StoreStop ==
  /\ drvpc = "sleep"
  /\ SleepOver
  /\ running' = FALSE
  /\ drvpc' = "elapsed"
  /\ UNCHANGED <<cfg, now, spawned, drvStart, drvElapsed, joinIdx,
                 results, ctxpc, cur, doneOrder, ctxResult, pc, result, start,
                 issued, afterStop, anyOk, allRejected, lost, ops>>

\* let elapsed = start.elapsed()
Elapsed ==
  /\ drvpc = "elapsed"
  /\ drvElapsed' = now - drvStart
  /\ drvpc' = "join"
  /\ UNCHANGED <<cfg, now, running, spawned, drvStart, joinIdx,
                 results, ctxpc, cur, doneOrder, ctxResult, pc, result, start,
                 issued, afterStop, anyOk, allRejected, lost, ops>>

\* filter_map(|t| match t.join() { Ok(results) => Some(results), _ => None })
Joined(c) == IF ctxpc[c] = "finished" THEN <<ctxResult[c]>> ELSE << >>

\* mutant: the join result is unwrapped, so a panicked thread panics the Driver
AfterJoinUnwrap(c) == IF ctxpc[c] = "crashed" THEN "panicked" ELSE "join"

\* the `_ => None` arm: a join error is discarded and the iteration goes on
AfterJoin(c) == "join"

\* one step of the lazy join / filter_map / sum chain
Join ==
  /\ drvpc = "join"
  /\ joinIdx < cfg.threads
  /\ ctxpc[joinIdx + 1] \in {"finished", "crashed"}
  /\ joinIdx' = joinIdx + 1
  /\ results' = Fold(results, Joined(joinIdx + 1))
  /\ drvpc' = AfterJoin(joinIdx + 1)
  /\ UNCHANGED <<cfg, now, running, spawned, drvStart, drvElapsed,
                 ctxpc, cur, doneOrder, ctxResult, pc, result, start,
                 issued, afterStop, anyOk, allRejected, lost, ops>>

\* mutant: the merged elapsed (the sum of the per-loop values) is returned
ReturnKeepsSum ==
  /\ drvpc = "join"
  /\ joinIdx = cfg.threads
  /\ drvpc' = "returned"
  /\ UNCHANGED <<cfg, now, running, spawned, drvStart, drvElapsed, joinIdx,
                 results, ctxpc, cur, doneOrder, ctxResult, pc, result, start,
                 issued, afterStop, anyOk, allRejected, lost, ops>>

\* results.elapsed = elapsed; results
Return ==
  /\ drvpc = "join"
  /\ joinIdx = cfg.threads
  /\ results' = [results EXCEPT !.elapsed = drvElapsed]
  /\ drvpc' = "returned"
  /\ UNCHANGED <<cfg, now, running, spawned, drvStart, drvElapsed, joinIdx,
                 ctxpc, cur, doneOrder, ctxResult, pc, result, start,
                 issued, afterStop, anyOk, allRejected, lost, ops>>

\* the flag has been stored false
Stopped == drvpc \in {"elapsed", "join", "returned"}

\* the clock advances while somebody is still going to read it (the Driver
\* up to its `elapsed`, a loop with a request in flight); bounded by MaxTime,
\* and before the Driver reads its start Instant only so far that the sleep
\* can still end within MaxTime
Tick ==
  /\ \/ drvpc \in {"stamp", "sleep", "elapsed"}
     \/ \E c \in Ctx, i \in Idx : ctxpc[c] = "running" /\ pc[c][i] = "await"
  /\ now < MaxTime
  /\ drvpc = "stamp" => now + 1 + cfg.duration <= MaxTime
  /\ now' = now + 1
  /\ UNCHANGED <<cfg, running, drvpc, spawned, drvStart, drvElapsed, joinIdx,
                 results, ctxpc, cur, doneOrder, ctxResult, pc, result, start,
                 issued, afterStop, anyOk, allRejected, lost, ops>>

\* ------------------------------------------------------ execution context
drvState == <<cfg, now, running, drvpc, spawned, drvStart, drvElapsed, joinIdx, results>>

\* mutant: a multi-threaded runtime polls a loop whenever it is ready
CanPollAlways(c) == TRUE

\* a current-thread runtime polls one future at a time: another loop is
\* polled only when the one being executed has suspended or returned
CanPoll(c) == cur[c] = 0

\* timings recorded so far by the loops of a context
RECURSIVE Recorded(_, _)
Recorded(c, n) ==
  IF n = 0 THEN 0 ELSE Len(result[c][n].timings) + Recorded(c, n - 1)

\* requests issued so far in the run
RECURSIVE IssuedBy(_, _)
IssuedBy(c, n) == IF n = 0 THEN 0 ELSE issued[c][n] + IssuedBy(c, n - 1)
RECURSIVE TotalIssued(_)
TotalIssued(n) == IF n = 0 THEN 0 ELSE IssuedBy(n, MaxConcurrency) + TotalIssued(n - 1)

\* a panic in a loop unwinds through block_on and ends the thread: its
\* futures and their results (n timings) are dropped
Panic(c, n) ==
  /\ ctxpc' = [ctxpc EXCEPT ![c] = "crashed"]
  /\ cur' = [cur EXCEPT ![c] = 0]
  /\ doneOrder' = [doneOrder EXCEPT ![c] = << >>]
  /\ pc' = [pc EXCEPT ![c] = [i \in Idx |-> IF pc[c][i] = "none" THEN "none" ELSE "dropped"]]
  /\ result' = [result EXCEPT ![c] = [i \in Idx |-> Default]]
  /\ start' = [start EXCEPT ![c] = [i \in Idx |-> 0]]
  /\ afterStop' = [afterStop EXCEPT ![c] = [i \in Idx |-> 0]]
  /\ lost' = [lost EXCEPT ![c] = n]

\* mutant: the context sums its results as soon as one loop has returned
CtxFinishEarly(c) ==
  /\ ctxpc[c] = "running"
  /\ \E i \in Idx : pc[c][i] = "done"
  /\ ctxResult' = [ctxResult EXCEPT ![c] =
                     Sum([k \in 1..Len(doneOrder[c]) |-> result[c][doneOrder[c][k]]])]
  /\ ctxpc' = [ctxpc EXCEPT ![c] = "finished"]
  /\ afterStop' = [afterStop EXCEPT ![c] = [i \in Idx |-> 0]]
  /\ UNCHANGED <<drvState, cur, doneOrder, pc, result, start,
                 issued, anyOk, allRejected, lost, ops>>

\* block_on returned the collected Vec: results.into_iter().sum(), and the
\* thread ends
CtxFinish(c) ==
  /\ ctxpc[c] = "running"
  /\ \A i \in Idx : pc[c][i] \in {"none", "done"}
  /\ ctxResult' = [ctxResult EXCEPT ![c] =
                     Sum([k \in 1..Len(doneOrder[c]) |-> result[c][doneOrder[c][k]]])]
  /\ ctxpc' = [ctxpc EXCEPT ![c] = "finished"]
  /\ afterStop' = [afterStop EXCEPT ![c] = [i \in Idx |-> 0]]
  /\ UNCHANGED <<drvState, cur, doneOrder, pc, result, start,
                 issued, anyOk, allRejected, lost, ops>>

\* ------------------------------------------------------------ worker loop
\* mutant: the loop never reads the flag
WhileCondForever(r) == TRUE

\* mutant: the flag is read only every other iteration
WhileCondEveryOther(r) == running \/ Len(r.timings) % 2 = 1

\* while running.load(Ordering::Relaxed), for a loop whose result is r
WhileCond(r) == running

\* The loop is at its condition with result r, having recorded a of its
\* timings after the stop.  On true, `start = Instant::now()` and the
\* synchronous (make_request)(&uri) returns (the request is issued and the
\* loop suspends at the await), panics or never returns; on false the future
\* returns its result.  At most MaxReq requests are issued in a run: a loop
\* that would issue one more stays at its condition, keeping the thread.
LoopHead(c, i, r, a) ==
  IF WhileCond(r)
  THEN IF TotalIssued(MaxThreads) < MaxReq
       THEN \E out \in {"ret", "panic", "hang"} :
              \/ /\ out = "ret"
                 /\ result' = [result EXCEPT ![c][i] = r]
                 /\ afterStop' = [afterStop EXCEPT ![c][i] = a]
                 /\ start' = [start EXCEPT ![c][i] = now]
                 /\ pc' = [pc EXCEPT ![c][i] = "await"]
                 /\ cur' = [cur EXCEPT ![c] = 0]
                 /\ issued' = [issued EXCEPT ![c][i] = @ + 1]
                 /\ UNCHANGED <<ctxpc, doneOrder, lost>>
              \/ /\ out = "panic"
                 /\ Panic(c, Recorded(c, MaxConcurrency)
                             - Len(result[c][i].timings) + Len(r.timings))
                 /\ UNCHANGED issued
              \/ /\ out = "hang"
                 /\ result' = [result EXCEPT ![c][i] = r]
                 /\ afterStop' = [afterStop EXCEPT ![c][i] = a]
                 /\ start' = [start EXCEPT ![c][i] = 0]
                 /\ pc' = [pc EXCEPT ![c][i] = "hung"]
                 /\ cur' = [cur EXCEPT ![c] = i]
                 /\ UNCHANGED <<ctxpc, doneOrder, lost, issued>>
       ELSE /\ result' = [result EXCEPT ![c][i] = r]
            /\ afterStop' = [afterStop EXCEPT ![c][i] = a]
            /\ start' = [start EXCEPT ![c][i] = 0]
            /\ pc' = [pc EXCEPT ![c][i] = "check"]
            /\ cur' = [cur EXCEPT ![c] = i]
            /\ UNCHANGED <<ctxpc, doneOrder, lost, issued>>
  ELSE /\ result' = [result EXCEPT ![c][i] = r]
       /\ afterStop' = [afterStop EXCEPT ![c][i] = a]
       /\ start' = [start EXCEPT ![c][i] = 0]
       /\ pc' = [pc EXCEPT ![c][i] = "done"]
       /\ cur' = [cur EXCEPT ![c] = 0]
       /\ doneOrder' = [doneOrder EXCEPT ![c] = Append(@, i)]
       /\ UNCHANGED <<ctxpc, lost, issued>>

\* The thread polls a future for the first time (the client is built and
\* result = BenchmarkResult::default()), or goes on with a loop that stayed
\* at its condition.
Check(c, i) ==
  /\ ctxpc[c] = "running"
  /\ \/ pc[c][i] = "new" /\ CanPoll(c) /\ (WhileCond(result[c][i]) => TotalIssued(MaxThreads) < MaxReq)
     \/ pc[c][i] = "check" /\ ~WhileCond(result[c][i])
  /\ LoopHead(c, i, result[c][i], afterStop[c][i])
  /\ UNCHANGED <<drvState, ctxResult, anyOk, allRejected, ops>>

\* http.request(req).await completes and the loop is polled again: the match
\* increments one counter ((expectation_matcher)(res) is a synchronous call
\* that returns, panics or never returns), the timing is recorded and the
\* loop is back at its condition.
Resume(c, i) ==
  /\ ctxpc[c] = "running"
  /\ CanPoll(c)
  /\ pc[c][i] = "await"
  /\ \E out \in Outcomes \cup {"panic", "hang"} :
       \/ /\ out \in Outcomes
          /\ LoopHead(c, i, RecordTiming(Count(result[c][i], out), now - start[c][i]),
                      IF Stopped THEN afterStop[c][i] + 1 ELSE afterStop[c][i])
          /\ anyOk' = (anyOk \/ out # "tcp_error")
          /\ allRejected' = (allRejected /\ out = "http_error")
       \/ /\ out = "panic"
          /\ Panic(c, Recorded(c, MaxConcurrency))
          /\ anyOk' = TRUE
          /\ allRejected' = FALSE
          /\ UNCHANGED issued
       \/ /\ out = "hang"
          /\ pc' = [pc EXCEPT ![c][i] = "hung"]
          /\ cur' = [cur EXCEPT ![c] = i]
          /\ anyOk' = TRUE
          /\ allRejected' = FALSE
          /\ UNCHANGED <<ctxpc, result, doneOrder, start, afterStop, lost, issued>>
  /\ UNCHANGED <<drvState, ctxResult, ops>>

Next ==
  \/ Build
  \/ Resolve
  \/ Spawn
  \/ StoreRun
  \/ Stamp
  \/ StoreStop
  \/ Elapsed
  \/ Join
  \/ Return
  \/ Tick
  \/ \E c \in Ctx : CtxFinish(c)
  \/ \E c \in Ctx, i \in Idx : Check(c, i)
  \/ \E c \in Ctx, i \in Idx : Resume(c, i)

Spec == Init /\ [][Next]_vars

\* the Driver is one sequential thread
DriverStep ==
  \/ Build
  \/ Resolve
  \/ Spawn
  \/ StoreRun
  \/ Stamp
  \/ StoreStop
  \/ Elapsed
  \/ Join
  \/ Return

\* The operating system runs every thread that can take a step, the clock
\* goes on, every issued request completes and a current-thread runtime
\* polls every loop that is ready.
Fairness ==
  /\ WF_vars(DriverStep)
  /\ WF_vars(Tick)
  /\ \A c \in Ctx : WF_vars(CtxFinish(c))
  /\ \A c \in Ctx, i \in Idx : WF_vars(Check(c, i)) /\ WF_vars(Resume(c, i))

LiveSpec == Init /\ [][Next]_vars /\ Fairness

\* ---------------------------------------------------------- merge algebra
\* The operands are built the way the program builds results: by the loop
\* body's attempts and by merges of results (the right operand is moved).
OpLen == Len(ops[1].timings) + Len(ops[2].timings) + Len(ops[3].timings)

OpAttempt(k, o, lat) ==
  /\ OpLen < MaxTimings
  /\ ops' = [ops EXCEPT ![k] = RecordTiming(Count(@, o), lat)]
  /\ UNCHANGED runVars

OpAdd(j, k) ==
  /\ j # k
  /\ ops' = [ops EXCEPT ![j] = Add(ops[j], ops[k]), ![k] = Default]
  /\ UNCHANGED runVars

OpSum(j, k) ==
  /\ j # k
  /\ ops' = [ops EXCEPT ![j] = Sum(<<ops[j], ops[k]>>), ![k] = Default]
  /\ UNCHANGED runVars

MergeInit == RunInit("ok", 1, 1, 1) /\ OpInit

MergeNext ==
  \/ \E k \in 1..3, o \in Outcomes, lat \in Latencies : OpAttempt(k, o, lat)
  \/ \E j \in 1..3, k \in 1..3 : OpAdd(j, k)
  \/ \E j \in 1..3, k \in 1..3 : OpSum(j, k)

MergeSpec == MergeInit /\ [][MergeNext]_vars

\* ================================================================ claims
Attempts(r) == r.success + r.http_error + r.tcp_error

\* C1: stop is cooperative.  A loop that has exited has completed and
\* recorded every request it issued (one counter increment and one timing
\* each), and after the Driver stored false a loop records at most one
\* further request.
C1_CooperativeStop ==
  \A c \in Ctx, i \in Idx :
    /\ pc[c][i] = "done" =>
         /\ Len(result[c][i].timings) = issued[c][i]
         /\ Attempts(result[c][i]) = issued[c][i]
    /\ afterStop[c][i] <= 1

\* a loop exited after two requests, the second one in flight at the stop
C1_Witness ==
  \E c \in Ctx, i \in Idx :
    /\ pc[c][i] = "done"
    /\ issued[c][i] = 2
    /\ afterStop[c][i] = 1

\* C2: the elapsed time of a returned result is at least the configured
\* duration.
C2_ElapsedAtLeastDuration ==
  drvpc = "returned" => results.elapsed >= cfg.duration

\* a run returned whose elapsed time is exactly the duration, with timings
C2_Witness ==
  /\ drvpc = "returned"
  /\ results.elapsed = cfg.duration
  /\ results.timings # << >>

\* C3: len(timings) = success + http_error + tcp_error for every per-loop
\* result at its suspension points and at loop exit, for every per-context
\* merged result and for the Driver's accumulated and returned result.
C3_TimingsMatchCounters ==
  /\ \A c \in Ctx, i \in Idx :
       Len(result[c][i].timings) = Attempts(result[c][i])
  /\ \A c \in Ctx : Len(ctxResult[c].timings) = Attempts(ctxResult[c])
  /\ Len(results.timings) = Attempts(results)

\* a returned result merged from two recording loops with mixed outcomes
C3_Witness ==
  /\ drvpc = "returned"
  /\ Len(results.timings) = 2
  /\ results.tcp_error = 1
  /\ results.success = 1
  /\ \E c \in Ctx, i \in Idx : pc[c][i] = "done" /\ Len(result[c][i].timings) = 1

\* timings as a multiset
RECURSIVE BagOf(_)
BagOf(s) == IF s = << >> THEN EmptyBag ELSE BagOf(Tail(s)) (+) SetToBag({Head(s)})

\* equality on the fields the merge laws speak about
SameResult(x, y) ==
  /\ x.success = y.success
  /\ x.http_error = y.http_error
  /\ x.tcp_error = y.tcp_error
  /\ x.elapsed = y.elapsed
  /\ x.min_time = y.min_time
  /\ x.max_time = y.max_time
  /\ BagOf(x.timings) = BagOf(y.timings)

\* C4: merge is associative and commutative, for the + / += operator and for
\* the sum fold: merge(merge(a,b),c) = merge(a,merge(b,c)) = merge(merge(a,c),b),
\* comparing the counters, elapsed and extrema exactly and timings as a multiset.
C4_MergeAssocComm ==
  LET a == ops[1]
      b == ops[2]
      c == ops[3]
  IN  /\ SameResult(Add(Add(a, b), c), Add(a, Add(b, c)))
      /\ SameResult(Add(Add(a, b), c), Add(Add(a, c), b))
      /\ SameResult(Sum(<<Sum(<<a, b>>), c>>), Sum(<<a, Sum(<<b, c>>)>>))
      /\ SameResult(Sum(<<Sum(<<a, b>>), c>>), Sum(<<Sum(<<a, c>>), b>>))
      /\ SameResult(Sum(<<a, b, c>>), Sum(<<c, a, b>>))
      /\ SameResult(Sum(<<a, b, c>>), Add(Add(a, b), c))

\* three non-empty operands with different extrema
C4_Witness ==
  /\ \A k \in 1..3 : ops[k].timings # << >>
  /\ ops[3].min_time < ops[2].min_time
  /\ ops[1].max_time < ops[2].max_time

\* C5: the default BenchmarkResult is an identity of merge on every field:
\* merge(r, identity) = r and merge(identity, r) = r.
C5_DefaultIsIdentity ==
  \A k \in 1..3 :
    /\ Add(ops[k], Default) = ops[k]
    /\ Add(Default, ops[k]) = ops[k]
    /\ Sum(<<ops[k]>>) = ops[k]
    /\ Sum(<<ops[k], Default>>) = ops[k]

\* an operand that is itself a merge of recorded attempts
C5_Witness ==
  \E k \in 1..3 :
    /\ Len(ops[k].timings) = 2
    /\ ops[k].min_time < ops[k].max_time
    /\ ops[k].elapsed = 3

\* the loops whose results reach the Driver: those of the joined contexts
KeptLoops == {l \in Ctx \X Idx : ctxpc[l[1]] = "finished" /\ pc[l[1]][l[2]] = "done"}

RECURSIVE SumOver(_, _)
SumOver(S, f) ==
  IF S = {} THEN 0
  ELSE LET x == CHOOSE y \in S : TRUE IN f[x] + SumOver(S \ {x}, f)

RECURSIVE BagOver(_, _)
BagOver(S, f) ==
  IF S = {} THEN EmptyBag
  ELSE LET x == CHOOSE y \in S : TRUE IN BagOf(f[x]) (+) BagOver(S \ {x}, f)

Least(S) == CHOOSE m \in S : \A n \in S : m <= n
Greatest(S) == CHOOSE m \in S : \A n \in S : m >= n

\* C6: the returned counters, extrema and timings (as a multiset) are a
\* function of the set of per-loop results only: they do not depend on the
\* order in which loops finish inside a context or contexts finish.
C6_OrderIndependent ==
  drvpc = "returned" =>
    /\ results.success = SumOver(KeptLoops, [l \in KeptLoops |-> result[l[1]][l[2]].success])
    /\ results.http_error = SumOver(KeptLoops, [l \in KeptLoops |-> result[l[1]][l[2]].http_error])
    /\ results.tcp_error = SumOver(KeptLoops, [l \in KeptLoops |-> result[l[1]][l[2]].tcp_error])
    /\ results.min_time = Least({DurationMax} \cup {result[l[1]][l[2]].min_time : l \in KeptLoops})
    /\ results.max_time = Greatest({0} \cup {result[l[1]][l[2]].max_time : l \in KeptLoops})
    /\ BagOf(results.timings) = BagOver(KeptLoops, [l \in KeptLoops |-> result[l[1]][l[2]].timings])

\* the loops of a context finished in the reverse of their creation order,
\* the later one with the smaller latency
C6_Witness ==
  /\ drvpc = "returned"
  /\ \E c \in Ctx :
       /\ doneOrder[c] = <<2, 1>>
       /\ result[c][1].timings # << >>
       /\ result[c][2].timings # << >>
       /\ result[c][1].max_time < result[c][2].max_time

\* the loops a context created
LoopsOf(c) == {i \in Idx : pc[c][i] # "none"}

\* C7: each execution context runs exactly floor(concurrency / threads)
\* loops; the realized concurrency threads * floor(concurrency / threads) is
\* strictly less than the configured one when threads does not divide it,
\* and zero when threads > concurrency.
C7_RealizedConcurrency ==
  /\ \A c \in Ctx :
       ctxpc[c] \in {"running", "finished", "crashed"} =>
         LET n == Cardinality(LoopsOf(c))
         IN  /\ n * cfg.threads <= cfg.concurrency
             /\ cfg.concurrency < (n + 1) * cfg.threads
  /\ drvpc \in {"stamp", "sleep", "elapsed", "join", "returned"} =>
       LET total == SumOver(Ctx, [c \in Ctx |-> Cardinality(LoopsOf(c))])
           divides == \E q \in 0..cfg.concurrency : q * cfg.threads = cfg.concurrency
       IN  /\ \A q \in 0..cfg.concurrency :
                (q * cfg.threads <= cfg.concurrency /\ cfg.concurrency < (q + 1) * cfg.threads)
                  => total = cfg.threads * q
           /\ ~divides => total < cfg.concurrency
           /\ cfg.threads > cfg.concurrency => total = 0

\* two contexts share a concurrency of one: neither runs a loop
C7_Witness ==
  /\ cfg.threads = 2
  /\ cfg.concurrency = 1
  /\ \A c \in Ctx : ctxpc[c] = "finished" /\ LoopsOf(c) = {}
  /\ drvpc = "returned"

\* the results of the contexts 1..n that joined successfully, in join order
RECURSIVE JoinedResults(_)
JoinedResults(n) == IF n = 0 THEN << >> ELSE JoinedResults(n - 1) \o Joined(n)

\* C8: when a context fails to join, the run still returns a result and
\* reports no error, and the returned counters, extrema and timings are the
\* merge of exactly the contexts that joined: nothing the failed context
\* recorded is included.
C8_CrashedContextDropped ==
  (\E c \in Ctx : ctxpc[c] = "crashed") =>
    /\ drvpc \notin {"panicked", "build_err"}
    /\ drvpc = "returned" =>
         /\ [results EXCEPT !.elapsed = 0] =
              [Sum(JoinedResults(cfg.threads)) EXCEPT !.elapsed = 0]
         /\ Len(results.timings) =
              SumOver(KeptLoops, [l \in KeptLoops |-> Len(result[l[1]][l[2]].timings)])

\* a run returned the one request of the context that joined although the
\* context that panicked had recorded a request too
C8_Witness ==
  /\ drvpc = "returned"
  /\ \E c \in Ctx : ctxpc[c] = "crashed" /\ lost[c] = 1
  /\ \E c \in Ctx : ctxpc[c] = "finished" /\ Len(ctxResult[c].timings) = 1
  /\ Len(results.timings) = 1

\* a synchronous call of a loop of the context never returned
Hung(c) == \E i \in Idx : pc[c][i] = "hung"

\* C9 as stated: a request-factory or classifier call that never returns
\* stalls only the loop that made it; the other loops of the context keep
\* being resumed and the Driver can still join the context.
C9_HangStallsOneLoop ==
  \A c \in Ctx :
    Hung(c) =>
      /\ \A j \in Idx : pc[c][j] = "await" => ENABLED Resume(c, j)
      /\ (/\ drvpc = "join"
          /\ joinIdx = c - 1
          /\ \A j \in Idx : pc[c][j] \in {"none", "done", "hung"}) => ENABLED Join

\* C9 amended: a call that never returns stalls every loop of its execution
\* context (none is polled again and the context never finishes), loops of
\* other contexts are still resumed, and the run never returns.
C9_HangStallsContext ==
  \A c \in Ctx :
    Hung(c) =>
      /\ ctxpc[c] = "running"
      /\ \A j \in Idx :
           /\ ~ENABLED Resume(c, j)
           /\ ~ENABLED Check(c, j)
      /\ ~ENABLED CtxFinish(c)
      /\ drvpc # "returned"
      /\ \A c2 \in Ctx \ {c}, j \in Idx :
           (ctxpc[c2] = "running" /\ cur[c2] = 0 /\ pc[c2][j] = "await")
             => ENABLED Resume(c2, j)

\* the classifier hung while a sibling's request was in flight, after the stop
C9_Witness ==
  /\ Stopped
  /\ \E c \in Ctx, i \in Idx, j \in Idx :
       /\ pc[c][i] = "hung"
       /\ issued[c][i] = 1
       /\ pc[c][j] = "await"

\* C10: if every request fails at the transport layer, the returned result
\* has tcp_error = attempts = len(timings), success = 0, http_error = 0,
\* total_request_count() = 0 and requests_per_second() = 0 although the
\* number of attempts is nonzero.
C10_AllTransportFail ==
  (drvpc = "returned" /\ ~anyOk /\ results.timings # << >>) =>
    /\ results.tcp_error = Len(results.timings)
    /\ results.tcp_error = SumOver(KeptLoops, [l \in KeptLoops |-> issued[l[1]][l[2]]])
    /\ results.success = 0
    /\ results.http_error = 0
    /\ total_request_count(results) = 0
    /\ IsZero(requests_per_second(results))

\* C11: each completed attempt increments exactly one of the three counters
\* by one and is never retried (the counters of a loop add up to the requests
\* it issued and that have completed, and a step adds at most one to one
\* counter); with a transport that always succeeds and a classifier that
\* always returns false, http_error equals the number of attempts and
\* success = tcp_error = 0.
C11_OneCounterPerAttempt ==
  /\ [](/\ \A c \in Ctx, i \in Idx :
            pc[c][i] \in {"await", "check", "done"} =>
              Attempts(result[c][i]) =
                issued[c][i] - (IF pc[c][i] = "await" THEN 1 ELSE 0)
        /\ (drvpc = "returned" /\ allRejected) =>
              /\ results.http_error = Len(results.timings)
              /\ results.http_error =
                   SumOver(KeptLoops, [l \in KeptLoops |-> issued[l[1]][l[2]]])
              /\ results.success = 0
              /\ results.tcp_error = 0)
  /\ [][\A c \in Ctx, i \in Idx :
          ctxpc'[c] # "crashed" =>
            LET r == result[c][i]
                q == result'[c][i]
            IN  /\ q.success - r.success \in {0, 1}
                /\ q.http_error - r.http_error \in {0, 1}
                /\ q.tcp_error - r.tcp_error \in {0, 1}
                /\ Attempts(q) - Attempts(r) = Len(q.timings) - Len(r.timings)
                /\ Attempts(q) - Attempts(r) \in {0, 1}]_vars

\* a run returned two attempts, both answered and both classified false
C11_Witness ==
  /\ drvpc = "returned"
  /\ allRejected
  /\ results.http_error = 2

\* C12: merging adds the three counters componentwise, so
\* total_request_count(merge(a, b)) = a.success + a.http_error + b.success +
\* b.http_error, and the tcp errors of either operand are never counted in it.
C12_MergeAddsCounters ==
  \A j \in 1..3, k \in 1..3 :
    LET a == ops[j]
        b == ops[k]
    IN  \A m \in {Add(a, b), Sum(<<a, b>>)} :
          /\ m.success = a.success + b.success
          /\ m.http_error = a.http_error + b.http_error
          /\ m.tcp_error = a.tcp_error + b.tcp_error
          /\ total_request_count(m) =
               a.success + a.http_error + b.success + b.http_error

\* an all-success operand and an all-tcp-error operand
C12_Witness ==
  /\ ops[1].success = 2
  /\ Attempts(ops[1]) = 2
  /\ ops[2].tcp_error = 1
  /\ Attempts(ops[2]) = 1
  /\ total_request_count(Add(ops[1], ops[2])) = 2

\* C13: the Driver's final step changes only the elapsed field.  The
\* returned elapsed is the Driver's one wall-clock measurement around the
\* run/stop window, not the sum of the per-loop elapsed values; success,
\* http_error, tcp_error, min_time, max_time and timings are exactly those of
\* the merge of the joined contexts.
C13_OnlyElapsedOverwritten ==
  /\ [](drvpc = "returned" =>
          /\ results = [Sum(JoinedResults(cfg.threads)) EXCEPT !.elapsed = drvElapsed]
          /\ cfg.duration <= results.elapsed
          /\ results.elapsed <= now - drvStart)
  /\ [][(drvpc = "join" /\ drvpc' = "returned") =>
          results' = [results EXCEPT !.elapsed = drvElapsed]]_vars

\* a run returned timings whose merged elapsed differs from the measurement
C13_Witness ==
  /\ drvpc = "returned"
  /\ results.timings # << >>
  /\ Sum(JoinedResults(cfg.threads)).elapsed # results.elapsed
  /\ results.elapsed = drvElapsed

\* C14: in every run the flag is written exactly twice, first to true and
\* then to false, and only by the Driver (the flag is true exactly between
\* the Driver's two stores, it changes only in those two Driver steps, no
\* step of a loop or context changes it, and after the stop it stays false).
C14_FlagWrittenTwiceByDriver ==
  /\ [](running <=> drvpc \in {"stamp", "sleep"})
  /\ [][running' # running =>
          \/ ~running /\ drvpc = "spawn" /\ drvpc' = "stamp"
          \/ running /\ drvpc = "sleep" /\ drvpc' = "elapsed"]_vars
  /\ [][(pc' # pc \/ ctxpc' # ctxpc \/ result' # result) => running' = running]_vars
  /\ [][Stopped => (Stopped' /\ ~running')]_vars

\* a run returned after its loops read the flag as true and then as false
C14_Witness ==
  /\ drvpc = "returned"
  /\ ~running
  /\ results.timings # << >>

\* C15: if the target URI is missing or invalid, or its host cannot be
\* resolved, the run fails before any execution context is spawned: no
\* worker loop starts, no request is issued and no result is produced.
C15_BadUriFailsBeforeSpawn ==
  cfg.uri # "ok" =>
    /\ cfg.uri = "invalid" => drvpc \in {"build", "build_err"}
    /\ cfg.uri = "unresolvable" => drvpc \in {"build", "resolve", "panicked"}
    /\ spawned = 0
    /\ ~running
    /\ \A c \in Ctx :
         /\ ctxpc[c] = "none"
         /\ \A i \in Idx : pc[c][i] = "none" /\ issued[c][i] = 0
    /\ results = Default

\* a run configured with two threads failed at the resolution of its host
C15_Witness ==
  /\ drvpc = "panicked"
  /\ cfg.uri = "unresolvable"
  /\ cfg.threads = 2
  /\ cfg.concurrency = 2
  /\ spawned = 0

\* every context was joined and every loop of a context that finished exited
AllJoined ==
  /\ joinIdx = cfg.threads
  /\ \A c \in 1..cfg.threads :
       /\ ctxpc[c] \in {"finished", "crashed"}
       /\ ctxpc[c] = "finished" => \A i \in Idx : pc[c][i] \in {"none", "done"}

\* C16: once a run has started it always returns a merged result: provided
\* every issued request eventually completes and the injected functions
\* return (no call of them hangs), after the Driver writes stop every worker
\* loop eventually exits, every context is joined and zerg() returns.
C16_RunReturns ==
  /\ (drvpc = "spawn") ~> (Stopped \/ \E c \in Ctx : Hung(c))
  /\ Stopped ~> ((drvpc = "returned" /\ AllJoined) \/ \E c \in Ctx : Hung(c))

\* a run of two contexts returned two requests, no context having failed
C16_Witness ==
  /\ drvpc = "returned"
  /\ AllJoined
  /\ cfg.threads = 2
  /\ \A c \in Ctx : ctxpc[c] = "finished"
  /\ Len(results.timings) = 2

\* C17: a BenchmarkResult is mutated only by the worker loop that created
\* it (or dropped with its context); a context merges its loops' results
\* only after all of its loops have exited, and the Driver merges a
\* context's result only after that context has been joined, so no result
\* is read for merging while a loop can still mutate it.
C17_ExclusiveOwnership ==
  /\ [](\A c \in Ctx :
          ctxpc[c] = "finished" =>
            /\ \A i \in Idx : pc[c][i] \in {"none", "done"}
            /\ ctxResult[c] =
                 Sum([k \in 1..Len(doneOrder[c]) |-> result[c][doneOrder[c][k]]]))
  /\ [](\A c \in 1..joinIdx : ctxpc[c] \in {"finished", "crashed"})
  /\ [][\A c \in Ctx, i \in Idx :
          result'[c][i] # result[c][i] =>
            \/ ctxpc'[c] = "crashed"
            \/ /\ ctxpc[c] = "running"
               /\ pc[c][i] = "await"
               /\ \A d \in Ctx, j \in Idx :
                    <<d, j>> # <<c, i>> => result'[d][j] = result[d][j]
               /\ ctxResult' = ctxResult
               /\ results' = results]_vars
  /\ [][\A c \in Ctx :
          ctxResult'[c] # ctxResult[c] =>
            /\ ctxpc[c] = "running"
            /\ ctxpc'[c] = "finished"
            /\ \A i \in Idx : pc[c][i] \in {"none", "done"}
            /\ result' = result]_vars
  /\ [][results' # results =>
          /\ drvpc = "join"
          /\ \/ drvpc' = "returned"
             \/ joinIdx' = joinIdx + 1 /\ ctxpc[joinIdx + 1] = "finished"
          /\ result' = result
          /\ ctxResult' = ctxResult]_vars

\* the Driver has merged a context whose two loops recorded a request each
C17_Witness ==
  /\ drvpc = "join"
  /\ joinIdx = 1
  /\ ctxpc[1] = "finished"
  /\ Len(doneOrder[1]) = 2
  /\ Len(results.timings) = 2
  /\ \A i \in Idx : Len(result[1][i].timings) = 1

\* the latencies a result holds
TimingSet(r) == {r.timings[k] : k \in 1..Len(r.timings)}

\* min_time and max_time are the extrema of the timings, or the identities
ExtremaOfTimings(r) ==
  IF r.timings = << >>
  THEN r.min_time = DurationMax /\ r.max_time = 0
  ELSE /\ r.min_time = Least(TimingSet(r))
       /\ r.max_time = Greatest(TimingSet(r))
       /\ r.min_time <= r.max_time

\* C19: for every per-loop result, every merged result and the final
\* result: if timings is non-empty, min_time is its smallest and max_time its
\* largest element (so min_time <= max_time); if timings is empty, min_time
\* is Duration::MAX and max_time is 0.
C19_ExtremaMatchTimings ==
  /\ \A c \in Ctx, i \in Idx : ExtremaOfTimings(result[c][i])
  /\ \A c \in Ctx : ExtremaOfTimings(ctxResult[c])
  /\ ExtremaOfTimings(results)
  /\ \A c \in Ctx, i \in Idx, d \in Ctx, j \in Idx :
       ExtremaOfTimings(Add(result[c][i], result[d][j]))

\* a returned result with a loop whose second latency is below its first
C19_Witness ==
  /\ drvpc = "returned"
  /\ results.min_time < results.max_time
  /\ \E c \in Ctx, i \in Idx : result[c][i].timings = <<1, 0>>

\* C20: every worker loop that is created stays in its request loop until
\* the Driver writes stop: under every interleaving of context start-up with
\* the Driver's first write, no loop returns its result before the Driver's
\* second write.
C20_LoopsRunUntilStop ==
  \A c \in Ctx, i \in Idx : pc[c][i] = "done" => Stopped

====
